---- MODULE Spec2Model ----
(***************************************************************************)
(* Model of streamlit_app.py: one render pass of generate_schedule() over  *)
(* the spreadsheet tarefas.xlsx, and the re-run Streamlit starts when the   *)
(* user ticks a "Concluído" checkbox of the data editor.                    *)
(*                                                                         *)
(* Conventions of the model                                                 *)
(*  - a spreadsheet cell is a tagged record: NaN (empty cell), Num(n),      *)
(*    Str(s), Bool(b);                                                      *)
(*  - a Python str is a sequence of one-character strings; the check mark   *)
(*    U+2705 is the single character "U+2705", "í" is written "i";          *)
(*  - a datetime is an integer counting eighths of a day (3 hours) since    *)
(*    2025-01-01T00:00, so that duration_hours / 8 days is exact;           *)
(*  - Opacity is kept in percent (50 for 0.5, 100 for 1.0).                 *)
(***************************************************************************)
EXTENDS Integers, Sequences, FiniteSets, TLC

\* ------------------------------------------------------------------ bounds
\* Largest number of rows of a spreadsheet built from BatchRows.
MaxRows == 3

\* -------------------------------------------------------- program constants
\* year=2025, the default argument of get_start_date_from_week.
Year == 2025
\* "assume 8h/day": days_needed = max(1, duration_hours / 8).
HoursPerDay == 8

\* ------------------------------------------------------------------ state
VARIABLES
  file,      \* the spreadsheet on disk (never written by the program)
  flipped,   \* the data editor's edit state: indices whose checkbox was toggled
  pc,        \* position of the script: start, editor, loop, done
  df,        \* the DataFrame
  buffer,    \* the download buffer: whether it was written, and the rows in it
  index,     \* the loop's row index (0-based)
  tasks,     \* the list of task dicts
  origin,    \* history: origin[k] is the row index tasks[k] was built from
  st_out,    \* the Streamlit elements emitted so far, in order
  fig        \* the sorted frame handed to px.timeline, or <<>>

vars == <<file, flipped, pc, df, buffer, index, tasks, origin, st_out, fig>>

\* ------------------------------------------------------------ cell values
NaN == [t |-> "nan"]
Num(n) == [t |-> "num", n |-> n]
Str(s) == [t |-> "str", s |-> s]
Bool(b) == [t |-> "bool", b |-> b]

\* pd.isna(x) on a scalar cell.
IsNa(x) == x.t = "nan"

\* ---------------------------------------------------------------- strings
\* ord(c) for the characters the inputs are written with.
Ord(c) ==
  CASE c = " " -> 32
    [] c = "A" -> 65
    [] c = "B" -> 66
    [] c = "X" -> 88
    [] c = "a" -> 97
    [] c = "n" -> 110
    [] OTHER   -> 0

\* Python's a < b on str: lexicographic on code points, a proper prefix first.
RECURSIVE StrLess(_, _)
StrLess(a, b) ==
  IF b = <<>> THEN FALSE
  ELSE IF a = <<>> THEN TRUE
  ELSE IF Ord(Head(a)) < Ord(Head(b)) THEN TRUE
  ELSE IF Ord(Head(a)) > Ord(Head(b)) THEN FALSE
  ELSE StrLess(Tail(a), Tail(b))

RECURSIVE LStrip(_)
LStrip(s) == IF s # <<>> /\ Head(s) = " " THEN LStrip(Tail(s)) ELSE s

RECURSIVE RStrip(_)
RStrip(s) ==
  IF s # <<>> /\ s[Len(s)] = " " THEN RStrip(SubSeq(s, 1, Len(s) - 1)) ELSE s

\* str.strip()
Strip(s) == RStrip(LStrip(s))

\* str(x) of a cell that holds text or is empty: str(float('nan')) is "nan".
PyStr(x) == IF x.t = "str" THEN x.s ELSE <<"n", "a", "n">>

\* ------------------------------------------------------------------ dates
\* date(y, 1, 1).weekday(), Monday = 0 (Gauss's formula gives Sunday = 0).
FirstWeekday(y) ==
  LET sun0 == (1 + 5 * ((y - 1) % 4) + 4 * ((y - 1) % 100) + 6 * ((y - 1) % 400)) % 7
  IN (sun0 + 6) % 7

\* _strptime._calc_julian_from_U_or_W(year, week_of_year, day_of_week, True):
\* the day of the year (1 = 1 January) of weekday day_of_week of week
\* week_of_year, where week 1 starts on the first Monday of the year and the
\* days before it are week 0.
CalcJulianFromW(y, week_of_year, day_of_week) ==
  LET first_weekday == FirstWeekday(y)
      week_0_length == (7 - first_weekday) % 7
  IN IF week_of_year = 0
       THEN 1 + day_of_week - first_weekday
       ELSE 1 + week_0_length + 7 * (week_of_year - 1) + day_of_week

\* Whether "%Y-W%W-%w" matches f'{year}-W{week}-1': %W takes one or two digits
\* forming 0..53, so "-1", "54" and "100" do not match (ValueError).
StrptimeMatches(week) == week \in 0..53

\* get_start_date_from_week(week): midnight of the Monday strptime computes,
\* in eighths of a day since 2025-01-01T00:00.  %w = 1 is Monday, which is
\* day_of_week 0 in _strptime.
get_start_date_from_week(week) ==
  (CalcJulianFromW(Year, week, 0) - 1) * HoursPerDay


\* ------------------------------------------------- the per-row computation
\* Days as time units (eighths of a day).
Days(n) == n * HoursPerDay

\* duration_hours / 8, in days; as time units the quotient of d hours is d.
\* NaN / 8 is NaN; a str divided by an int raises TypeError (see ProcessRow).
Div8(duration) == IF duration.t = "num" THEN Num(duration.n) ELSE NaN

\* Python's max(a, b): b when b > a, else a; every comparison with NaN is
\* False, so max(1, nan) is 1.
PyMax(a, b) == IF b.t = "num" /\ b.n > a.n THEN b ELSE a

\* Variant: the quotient rounded up to whole days.
days_needed_ceil(duration) ==
  LET q == Div8(duration)
  IN IF q.t = "num" /\ q.n > Days(1)
       THEN Days((q.n + HoursPerDay - 1) \div HoursPerDay)
       ELSE Days(1)

\* days_needed = max(1, duration_hours / 8), in time units.
days_needed(duration) == PyMax(Num(Days(1)), Div8(duration)).n

\* The completion marker of the label.
CheckMark == <<"U+2705", " ">>

\* The colour group of a completed task: the str "Concluído".
ConcluidoGroup == Str(<<"C", "o", "n", "c", "l", "u", "i", "d", "o">>)

\* color_group = "Concluído" if is_done else row['Formador']: the raw cell of
\* the row, not the stripped local variable trainer.
color_group(is_done, row) == IF is_done THEN ConcluidoGroup ELSE row.trainer

\* label = f"{status_text}{topic} ({trainer})"
MakeLabel(is_done, topic, trainer) ==
  (IF is_done THEN CheckMark ELSE <<>>) \o topic \o <<" ", "(">> \o trainer \o <<")">>

\* The dict appended to tasks for a row that raised nothing.
BuildTask(row) ==
  LET week       == row.week.n
      topic      == Strip(PyStr(row.topic))
      trainer    == Strip(PyStr(row.trainer))
      start_date == get_start_date_from_week(week)
      end_date   == start_date + days_needed(row.duration)
      is_done    == row.concluido.b
  IN [Tarefa   |-> topic,
      Formador |-> trainer,
      Cor      |-> color_group(is_done, row),
      Inicio   |-> start_date,
      Fim      |-> end_date,
      Duracao  |-> row.duration,
      Semana   |-> week,
      Label    |-> MakeLabel(is_done, topic, trainer),
      Opacity  |-> IF is_done THEN 50 ELSE 100]

\* The body of the for loop on one row, in the order of the code: the null
\* test, then the statements that can raise.
ProcessRow(row) ==
  IF IsNa(row.week) \/ IsNa(row.topic) THEN [kind |-> "continue"]
  ELSE IF ~StrptimeMatches(row.week.n) THEN [kind |-> "except", e |-> "ValueError"]
  ELSE IF row.duration.t = "str" THEN [kind |-> "except", e |-> "TypeError"]
  ELSE [kind |-> "task", task |-> BuildTask(row)]

\* Variant: the except clause leaves the loop.
ExceptBreak(i) == Len(df)

\* Where the loop goes after the except clause: continue.
ExceptContinue(i) == i + 1

\* Variant: the except clause records nothing.
WarnSkippingSilent(out, i, e) == out

\* st.warning(f"Skipping row {index}: {e}")
WarnSkipping(out, i, e) == Append(out, [kind |-> "warning", index |-> i, e |-> e])

\* ------------------------------------------------------------ the sorting
\* df_gantt = pd.DataFrame(tasks): the rows with the default index 0..n-1.
DataFrame(ts) == [k \in 1..Len(ts) |-> [index |-> k - 1, data |-> ts[k]]]

\* Variant: the start date alone is the key.
KeyLessStartOnly(a, b) == a.data.Inicio < b.data.Inicio

\* The composite key ['Início', 'Tarefa'], both ascending.
KeyLess(a, b) ==
  \/ a.data.Inicio < b.data.Inicio
  \/ a.data.Inicio = b.data.Inicio /\ StrLess(a.data.Tarefa, b.data.Tarefa)

RECURSIVE InsertSorted(_, _)
InsertSorted(x, s) ==
  IF s = <<>> THEN <<x>>
  ELSE IF KeyLess(x, Head(s)) THEN <<x>> \o s
  ELSE <<Head(s)>> \o InsertSorted(x, Tail(s))

RECURSIVE SortFrom(_, _)
SortFrom(f, acc) ==
  IF f = <<>> THEN acc ELSE SortFrom(Tail(f), InsertSorted(Head(f), acc))

\* DataFrame.sort_values(by=['Início', 'Tarefa'], ascending=[True, True]):
\* a sort on several columns is a lexsort, which is stable.
sort_values(f) == SortFrom(f, <<>>)

\* Variant: the emptiness test never succeeds.
NoTasksNever(ts) == FALSE

\* "if not tasks"
NoTasks(ts) == ts = <<>>

\* ------------------------------------------------------------- the inputs
\* The week numbers tried: every number strptime accepts, and its neighbours.
WeekNumbers == (-1)..54
RichWeeks == {NaN} \cup {Num(w) : w \in WeekNumbers}
RichDurations == {NaN, Str(<<"a">>)} \cup {Num(d) : d \in {4, 8, 10, 16}}
Topics == {NaN, Str(<<" ", "A">>), Str(<<"B">>)}
RichTrainers == {NaN, Str(<<"X">>), Str(<<" ", "X">>)}
ConcluidoCells == {NaN, Bool(TRUE), Bool(FALSE)}

\* The rows of the one-row spreadsheets: every combination of cell kinds.
RichRows ==
  [week : RichWeeks, duration : RichDurations, topic : Topics,
   trainer : RichTrainers, concluido : ConcluidoCells]

\* The rows of the longer spreadsheets: four well-formed rows (two weeks, two
\* topics) and four defective ones (no topic, week 54, a text duration, no
\* duration).
GoodBatchRows ==
  [week : {Num(9), Num(10)}, duration : {Num(8)},
   topic : {Str(<<" ", "A">>), Str(<<"B">>)}, trainer : {Str(<<"X">>)},
   concluido : {Bool(FALSE)}]

BadBatchRows ==
  LET r == [week |-> Num(10), duration |-> Num(8), topic |-> Str(<<"B">>),
            trainer |-> Str(<<"X">>), concluido |-> Bool(FALSE)]
  IN {[r EXCEPT !.topic = NaN], [r EXCEPT !.week = Num(54)],
      [r EXCEPT !.duration = Str(<<"a">>)], [r EXCEPT !.duration = NaN]}

BatchRows == GoodBatchRows \cup BadBatchRows

\* tarefas.xlsx: absent, or a sheet with or without a "Concluído" column (the
\* concluido cells of a sheet without the column are unused and kept NaN).
Files ==
  {[exists |-> FALSE, hasConcluido |-> FALSE, rows |-> <<>>]}
  \cup {[exists |-> TRUE, hasConcluido |-> TRUE, rows |-> <<r>>] : r \in RichRows}
  \cup {[exists |-> TRUE, hasConcluido |-> FALSE, rows |-> <<r>>] :
          r \in {x \in RichRows : x.concluido = NaN}}
  \cup {[exists |-> TRUE, hasConcluido |-> TRUE, rows |-> rs] :
          rs \in UNION {[1..n -> BatchRows] : n \in 0..MaxRows}}

\* The download buffer before to_excel has written it.
EmptyBuffer == [written |-> FALSE, rows |-> <<>>]

\* A Streamlit element without parameters: title, error, editor, download,
\* warning_empty, chart.
El(kind) == [kind |-> kind]

Init ==
  /\ file \in Files
  /\ flipped = {}
  /\ pc = "start"
  /\ df = <<>>
  /\ buffer = EmptyBuffer
  /\ index = 0
  /\ tasks = <<>>
  /\ origin = <<>>
  /\ st_out = <<>>
  /\ fig = <<>>


\* ---------------------------------------------------------------- actions
\* The state a (re)run of the script starts from; file and flipped persist.
Rerun ==
  /\ pc' = "start"
  /\ df' = <<>>
  /\ buffer' = EmptyBuffer
  /\ index' = 0
  /\ tasks' = <<>>
  /\ origin' = <<>>
  /\ st_out' = <<>>
  /\ fig' = <<>>

\* df['Concluído'].astype(bool) on one cell: bool(nan) is True.
AsTypeBool(x) == IF x.t = "bool" THEN x ELSE Bool(TRUE)

\* Lines 39-45: the column is created False when absent, else cast to bool.
EnsureConcluido(f) ==
  [k \in 1..Len(f.rows) |->
     [f.rows[k] EXCEPT !.concluido =
        IF f.hasConcluido THEN AsTypeBool(@) ELSE Bool(FALSE)]]

\* st.data_editor: the frame with the user's checkbox toggles applied.
data_editor(d, fl) ==
  [k \in 1..Len(d) |->
     IF (k - 1) \in fl THEN [d[k] EXCEPT !.concluido = Bool(~@.b)] ELSE d[k]]

\* pd.read_excel raises FileNotFoundError: st.error, return.
FileNotFound ==
  /\ pc = "start"
  /\ ~file.exists
  /\ st_out' = <<El("title"), El("error")>>
  /\ pc' = "done"
  /\ UNCHANGED <<file, flipped, df, buffer, index, tasks, origin, fig>>

\* pd.read_excel succeeds; the "Concluído" column is ensured.
ReadExcel ==
  /\ pc = "start"
  /\ file.exists
  /\ df' = EnsureConcluido(file)
  /\ st_out' = <<El("title")>>
  /\ pc' = "editor"
  /\ UNCHANGED <<file, flipped, buffer, index, tasks, origin, fig>>

\* The data editor, the export of the edited frame to the download buffer,
\* df = edited_df, tasks = [].
DataEditor ==
  /\ pc = "editor"
  /\ df' = data_editor(df, flipped)
  /\ buffer' = [written |-> TRUE, rows |-> df']
  /\ st_out' = st_out \o <<El("editor"), El("download")>>
  /\ tasks' = <<>>
  /\ origin' = <<>>
  /\ index' = 0
  /\ pc' = "loop"
  /\ UNCHANGED <<file, flipped, fig>>

\* A loop iteration that ends at "continue" of the null test.
RowContinue ==
  /\ pc = "loop"
  /\ index < Len(df)
  /\ ProcessRow(df[index + 1]).kind = "continue"
  /\ index' = index + 1
  /\ UNCHANGED <<file, flipped, pc, df, buffer, tasks, origin, st_out, fig>>

\* A loop iteration that appends a task.
RowTask ==
  /\ pc = "loop"
  /\ index < Len(df)
  /\ LET r == ProcessRow(df[index + 1])
     IN /\ r.kind = "task"
        /\ tasks' = Append(tasks, r.task)
        /\ origin' = Append(origin, index)
  /\ index' = index + 1
  /\ UNCHANGED <<file, flipped, pc, df, buffer, st_out, fig>>

\* A loop iteration that raises: the except clause warns and continues.
RowExcept ==
  /\ pc = "loop"
  /\ index < Len(df)
  /\ LET r == ProcessRow(df[index + 1])
     IN /\ r.kind = "except"
        /\ st_out' = WarnSkipping(st_out, index, r.e)
  /\ index' = ExceptContinue(index)
  /\ UNCHANGED <<file, flipped, pc, df, buffer, tasks, origin, fig>>

\* After the loop, no task: st.warning, return.
EmptySchedule ==
  /\ pc = "loop"
  /\ index >= Len(df)
  /\ NoTasks(tasks)
  /\ st_out' = Append(st_out, El("warning_empty"))
  /\ pc' = "done"
  /\ UNCHANGED <<file, flipped, df, buffer, index, tasks, origin, fig>>

\* After the loop, some task: the frame is sorted (twice) and charted.
RenderChart ==
  /\ pc = "loop"
  /\ index >= Len(df)
  /\ ~NoTasks(tasks)
  /\ fig' = sort_values(sort_values(DataFrame(tasks)))
  /\ st_out' = Append(st_out, El("chart"))
  /\ pc' = "done"
  /\ UNCHANGED <<file, flipped, df, buffer, index, tasks, origin>>

\* The user toggles the checkbox of row i in the displayed editor; Streamlit
\* runs the script again with the editor's state kept.
ToggleConcluido ==
  /\ pc = "done"
  /\ \E k \in 1..Len(st_out) : st_out[k] = El("editor")
  /\ \E i \in 0..(Len(df) - 1) :
       flipped' = IF i \in flipped THEN flipped \ {i} ELSE flipped \cup {i}
  /\ Rerun
  /\ UNCHANGED file

Next ==
  \/ FileNotFound
  \/ ReadExcel
  \/ DataEditor
  \/ RowContinue
  \/ RowTask
  \/ RowExcept
  \/ EmptySchedule
  \/ RenderChart
  \/ ToggleConcluido

Spec == Init /\ [][Next]_vars


\* ========================================================== the properties
\* The loop has been entered: df is the edited frame, rows 0..index-1 are done.
InLoop == file.exists /\ pc \in {"loop", "done"}

Processed == IF InLoop THEN 0..(index - 1) ELSE {}

\* The positions in tasks of the tasks built from row i.
TasksFrom(i) == {k \in 1..Len(tasks) : origin[k] = i}

\* The positions in st_out of the per-row warnings.
Warnings == {k \in 1..Len(st_out) : st_out[k].kind = "warning"}

WarnedRow(i) == \E k \in Warnings : st_out[k].index = i

NullRow(r) == IsNa(r.week) \/ IsNa(r.topic)

Shown(kind) == \E k \in 1..Len(st_out) : st_out[k] = El(kind)

\* Midnight of day d of month m of 2025, in time units.
DaysBeforeMonth == <<0, 31, 59, 90, 120, 151, 181, 212, 243, 273, 304, 334>>

Date2025(m, d) == (DaysBeforeMonth[m] + d - 1) * HoursPerDay

\* Midnight of the Monday of ISO week w of 2025: week 1 is the week holding
\* the first Thursday, that is the week holding 4 January.
IsoMonday(w) ==
  LET jan4_weekday == (FirstWeekday(Year) + 3) % 7
  IN (4 - jan4_weekday + 7 * (w - 1) - 1) * HoursPerDay

\* C1: for every week number w in 1..52 the start date of a task of week w is
\* the Monday of the week w counted from the week of the year's first
\* Thursday; a task of week 10 and 8 hours starts 2025-03-03 and ends
\* 2025-03-04.
C1_IsoWeekMonday ==
  \A k \in 1..Len(tasks) :
    LET t == tasks[k]
    IN t.Semana \in 1..52 =>
         /\ t.Inicio = IsoMonday(t.Semana)
         /\ (t.Semana = 10 /\ t.Duracao = Num(8)) =>
              (t.Inicio = Date2025(3, 3) /\ t.Fim = Date2025(3, 4))

\* C2: a row with week and topic present whose duration is empty or text
\* yields no task and a warning that names the row.
C2_BadDurationSkipped ==
  \A i \in Processed :
    LET r == df[i + 1]
    IN (~NullRow(r) /\ r.duration.t \in {"nan", "str"}) =>
         (TasksFrom(i) = {} /\ WarnedRow(i))

\* C3 as stated: every row is a task or a recorded skip, tasks + skip
\* diagnostics = rows, and a row without topic or week is in the diagnostics.
C3_TaskOrDiagnostic ==
  InLoop =>
    /\ Len(tasks) + Cardinality(Warnings) = index
    /\ \A i \in Processed :
         NullRow(df[i + 1]) => (TasksFrom(i) = {} /\ WarnedRow(i))

\* C3 amended: every row ends in exactly one of three outcomes, a task, a
\* warning, or a silent skip (no week or no topic, no diagnostic), so that
\* tasks + warnings + rows without week or topic = rows.
C3_ThreeOutcomes ==
  InLoop =>
    LET nulls  == {i \in Processed : NullRow(df[i + 1])}
        warned == {i \in Processed : WarnedRow(i)}
        tasked == {i \in Processed : TasksFrom(i) # {}}
    IN /\ Len(tasks) + Cardinality(Warnings) + Cardinality(nulls) = index
       /\ Len(tasks) = Cardinality(tasked)
       /\ Cardinality(Warnings) = Cardinality(warned)
       /\ nulls \cup warned \cup tasked = Processed
       /\ nulls \cap warned = {}
       /\ nulls \cap tasked = {}
       /\ warned \cap tasked = {}

C3_Witness ==
  /\ pc = "done"
  /\ Len(tasks) >= 1
  /\ Warnings # {}
  /\ \E i \in Processed : IsNa(df[i + 1].topic)

\* C4: a row whose week is 0, negative or above the 52 weeks of 2025 yields
\* no task; with a topic present it is skipped with a warning.
C4_BadWeekSkipped ==
  \A i \in Processed :
    LET r == df[i + 1]
    IN (~NullRow(r) /\ (r.week.n <= 0 \/ r.week.n > 52)) =>
         (TasksFrom(i) = {} /\ WarnedRow(i))

\* C5: for every task Fim - Inicio is max(1, hours / 8) days without rounding
\* (4 h: 1 day, 16 h: 2 days, 10 h: 1.25 days), hence at least one day.
C5_DaySpan ==
  \A k \in 1..Len(tasks) :
    LET t    == tasks[k]
        span == t.Fim - t.Inicio
    IN /\ span >= Days(1)
       /\ t.Duracao.t = "num" =>
            LET d == t.Duracao.n
            IN /\ span * HoursPerDay =
                    (IF d > HoursPerDay THEN d * Days(1) ELSE HoursPerDay * Days(1))
               /\ d = 4 => span = Days(1)
               /\ d = 16 => span = Days(2)
               /\ d = 10 => 4 * span = Days(5)

C5_Witness ==
  /\ pc = "done"
  /\ \E k \in 1..Len(tasks) : tasks[k].Duracao = Num(10)

\* C6: the frame handed to the chart holds every task once, ordered by start
\* date, then by topic, and rows with the same start date and topic keep
\* their order of appearance.
C6_Sorted ==
  (pc = "done" /\ Shown("chart")) =>
    /\ Len(fig) = Len(tasks)
    /\ {fig[j].index : j \in 1..Len(fig)} = 0..(Len(tasks) - 1)
    /\ \A j \in 1..Len(fig) : fig[j].data = tasks[fig[j].index + 1]
    /\ \A j, j2 \in 1..Len(fig) :
         j < j2 =>
           LET a == fig[j].data
               b == fig[j2].data
           IN \/ a.Inicio < b.Inicio
              \/ a.Inicio = b.Inicio /\ StrLess(a.Tarefa, b.Tarefa)
              \/ /\ a.Inicio = b.Inicio
                 /\ a.Tarefa = b.Tarefa
                 /\ fig[j].index < fig[j2].index

\* Rows (week 10, "B"), (week 10, "A"), (week 9, "B") come out third, second,
\* first.
C6_Witness ==
  /\ pc = "done"
  /\ Len(fig) = 3
  /\ [j \in 1..3 |-> fig[j].index] = <<2, 1, 0>>
  /\ fig[2].data.Inicio = fig[3].data.Inicio

\* C7: Cor is the completed group when the row is completed, else the task's
\* (stripped) Formador; Opacity is 0.5 when completed, else 1.0; Label is
\* "topic (trainer)", with the completion marker in front when completed.
C7_ColorOpacityLabel ==
  \A k \in 1..Len(tasks) :
    LET t       == tasks[k]
        is_done == df[origin[k] + 1].concluido.b
    IN /\ t.Cor = (IF is_done THEN ConcluidoGroup ELSE Str(t.Formador))
       /\ t.Opacity = (IF is_done THEN 50 ELSE 100)
       /\ t.Label = (IF is_done THEN CheckMark ELSE <<>>)
                      \o t.Tarefa \o <<" ", "(">> \o t.Formador \o <<")">>

\* A row that is valid on its own: a week of 2025, a topic, a numeric duration.
WellFormed(r) ==
  /\ r.week.t = "num"
  /\ r.week.n \in 1..52
  /\ r.topic.t = "str"
  /\ r.duration.t = "num"

\* C8: every processed row that is valid on its own has its task, whatever
\* the rows around it; the loop never gets stuck on a row and the pass ends
\* with every row processed.
C8_BatchNeverInterrupted ==
  InLoop =>
    /\ index <= Len(df)
    /\ \A i \in Processed :
         WellFormed(df[i + 1]) =>
           \E k \in TasksFrom(i) :
             /\ tasks[k].Tarefa = Strip(df[i + 1].topic.s)
             /\ tasks[k].Semana = df[i + 1].week.n
    /\ (pc = "loop" /\ index < Len(df)) => ENABLED (RowContinue \/ RowTask \/ RowExcept)
    /\ pc = "done" => index = Len(df)

C8_Witness ==
  /\ pc = "done"
  /\ Len(df) = 3
  /\ WarnedRow(0)
  /\ WellFormed(df[2]) /\ TasksFrom(1) # {}
  /\ WarnedRow(2)

\* C9: at the end of a pass the chart is shown iff the file was found and
\* some task survived; a missing file gives the error and nothing after it;
\* zero tasks give the "no valid tasks" warning last and no chart.
C9_ChartIff ==
  pc = "done" =>
    /\ Shown("chart") <=> (file.exists /\ Len(tasks) > 0)
    /\ ~file.exists =>
         (st_out = <<El("title"), El("error")>> /\ ~buffer.written /\ fig = <<>>)
    /\ (file.exists /\ Len(tasks) = 0) =>
         /\ st_out[Len(st_out)] = El("warning_empty")
         /\ fig = <<>>
    /\ Shown("chart") => (~Shown("error") /\ ~Shown("warning_empty") /\ fig # <<>>)

C9_Witness ==
  /\ pc = "done"
  /\ file.exists
  /\ Len(df) >= 2
  /\ tasks = <<>>
  /\ Shown("warning_empty")

\* Row i of the spreadsheet has no completion value.
NoCompletionValue(i) == ~file.hasConcluido \/ IsNa(file.rows[i + 1].concluido)

\* C10: a row without completion value that the user has not toggled is
\* exported with Concluído = False, and its task is not in the completed
\* group, has opacity 1.0 and no completion marker.
C10_DefaultsFalse ==
  InLoop =>
    \A i \in 0..(Len(df) - 1) :
      (NoCompletionValue(i) /\ i \notin flipped) =>
        /\ buffer.rows[i + 1].concluido = Bool(FALSE)
        /\ \A k \in TasksFrom(i) :
             /\ tasks[k].Cor # ConcluidoGroup
             /\ tasks[k].Opacity = 100
             /\ tasks[k].Label =
                  tasks[k].Tarefa \o <<" ", "(">> \o tasks[k].Formador \o <<")">>

====
